---- MODULE Spec2Model ----
(***************************************************************************)
(* Model of frontend/src/components/DisplaySegmentsDialog/index.js:        *)
(* the FullScreenDialog component, its open/close state and the segment    *)
(* overlap validation done by handleSave.                                  *)
(*                                                                         *)
(* A segment is the 4-tuple <<name, start, end, someBool>>.                *)
(***************************************************************************)
EXTENDS Integers, Sequences, FiniteSets, TLC

\* ---- bounds of the model ------------------------------------------------
\* longest segment sequence of a display
MaxLen == 3
\* longest segment sequence in which someBool is TRUE somewhere
MaxFlagLen == 2
\* largest start / end value
MaxPos == 1

\* ---- input domains ------------------------------------------------------
Names == {"a", "b"}
DisplayIds == {"display-1"}
Positions == 0..MaxPos
Segments == Names \X Positions \X Positions \X BOOLEAN
PlainSegments == Names \X Positions \X Positions \X {FALSE}
SegmentSeqs ==
    UNION ({[1..n -> PlainSegments] : n \in 0..MaxLen}
           \cup {[1..n -> Segments] : n \in 0..MaxFlagLen})
InBounds(segs) ==
    /\ Len(segs) <= MaxLen
    /\ (\E i \in 1..Len(segs) : segs[i][4]) => Len(segs) <= MaxFlagLen

\* the fixed notification text of handleSave
Message == "Overlapping detected! Please Check your config"

VARIABLES
    open,        \* React state `open` of the dialog
    display,     \* the `display` prop: [id, segments]
    output,      \* handleSave's local `output` as left by the latest handler
    overlap,     \* handleSave's local `overlap` as left by the latest handler
    dispatched,  \* the actions dispatched by the latest handler, in order
    saved,       \* TRUE iff the latest handler that ran was handleSave
    notified     \* TRUE iff some save so far dispatched the notification

vars == <<open, display, output, overlap, dispatched, saved, notified>>

\* ---- action creators imported from modules/ui and modules/displays -----
showdynSnackbar(payload) == [type |-> "showdynSnackbar", payload |-> payload]

updateDisplayConfig(payload) == [type |-> "updateDisplayConfig", payload |-> payload]

\* ---- handleSave, lines 50-76 ---------------------------------------------
\* `let output = {}` : a map with no keys
StaleOutput == output
InitialOutput == [n \in {} |-> <<>>]

\* `let overlap = false`
InitialOverlap == FALSE

\* the key a segment is grouped under: the destructured `name`
GroupKeyShared(seg) == "a"
GroupKey(seg) == seg[1]

\* `if (!(name in output)) output[name] = []`
EnsureGroup(out, name) ==
    IF name \in DOMAIN out
    THEN out
    ELSE [n \in (DOMAIN out) \cup {name} |-> IF n = name THEN <<>> ELSE out[n]]

\* `tmpEnd >= start`, with [tmpStart, tmpEnd] = output[name][i]
TripsStrict(tmp, start) == tmp[2] > start
TripsOnStart(tmp, start) == tmp[1] >= start
Trips(tmp, start) == tmp[2] >= start

\* `for (let i = 0; i < output[name].length; i++) { ... }`
RECURSIVE innerLoopFrom(_, _, _, _)
innerLoopFrom(list, i, start, ov) ==
    IF i > Len(list)
    THEN ov
    ELSE innerLoopFrom(list, i + 1, start, IF list[i][2] >= start THEN TRUE ELSE ov)
innerLoopSkipFirst(list, i, start, ov) == innerLoopFrom(list, i + 1, start, ov)
RECURSIVE innerLoop(_, _, _, _)
innerLoop(list, i, start, ov) ==
    IF i > Len(list)
    THEN ov
    ELSE innerLoop(list, i + 1, start, IF Trips(list[i], start) THEN TRUE ELSE ov)

\* the forEach callback applied to one segment
visitPushFirst(acc, seg) ==
    LET name  == seg[1]
        start == seg[2]
        end   == seg[3]
        out1  == EnsureGroup(acc.output, name)
        out2  == [out1 EXCEPT ![name] = Append(@, <<start, end>>)]
    IN  [output  |-> out2,
         overlap |-> (acc.overlap \/ \E i \in 1..Len(out2[name]) : out2[name][i][2] >= start)]
visit(acc, seg) ==
    LET name  == GroupKey(seg)
        start == seg[2]
        end   == seg[3]
        out1  == EnsureGroup(acc.output, name)
        ov    == innerLoop(out1[name], 1, start, acc.overlap)
    IN  [output  |-> [out1 EXCEPT ![name] = Append(@, <<start, end>>)],
         overlap |-> ov]

\* `display.segments.forEach(...)`
RECURSIVE forEach(_, _, _)
forEach(segs, k, acc) ==
    IF k > Len(segs) THEN acc ELSE forEach(segs, k + 1, visit(acc, segs[k]))

\* lines 51-67: the validation run of one save attempt
validate(segs) ==
    forEach(segs, 1, [output |-> InitialOutput, overlap |-> InitialOverlap])

\* the payload of the update action: { id: display.id, data: display.segments }
Regrouped(segs) ==
    SelectSeq(segs, LAMBDA s : s[1] = "a") \o SelectSeq(segs, LAMBDA s : s[1] # "a")
UpdatePayloadRegrouped(disp) == [id |-> disp.id, data |-> Regrouped(disp.segments)]
UpdatePayload(disp) == [id |-> disp.id, data |-> disp.segments]

\* lines 68-75: the dispatches of one save attempt
DispatchBoth(ov, disp) ==
    IF ov
    THEN <<showdynSnackbar([message |-> Message])>>
    ELSE <<updateDisplayConfig(UpdatePayload(disp)),
           showdynSnackbar([message |-> Message])>>
Dispatch(ov, disp) ==
    IF ov
    THEN <<showdynSnackbar([message |-> Message])>>
    ELSE <<updateDisplayConfig(UpdatePayload(disp))>>

\* the value of `open` after a save: line 74 is commented out
OpenAfterSaveClosing(o, ov) == IF ov THEN o ELSE FALSE
OpenAfterSave(o, ov) == o

\* ---- the handlers -------------------------------------------------------
Idle ==
    /\ output' = [n \in {} |-> <<>>]
    /\ overlap' = FALSE
    /\ dispatched' = <<>>
    /\ saved' = FALSE

handleClickOpen ==
    /\ open' = TRUE
    /\ Idle
    /\ UNCHANGED <<display, notified>>

\* the back button and onClose exist only while the dialog is shown
handleClose ==
    /\ open
    /\ open' = FALSE
    /\ Idle
    /\ UNCHANGED <<display, notified>>

\* the save button exists only while the dialog is shown
handleSave ==
    /\ open
    /\ LET r == validate(display.segments)
       IN  /\ output' = r.output
           /\ overlap' = r.overlap
           /\ dispatched' = Dispatch(r.overlap, display)
           /\ notified' = (notified \/ r.overlap)
           /\ open' = OpenAfterSave(open, r.overlap)
    /\ saved' = TRUE
    /\ UNCHANGED display

\* ---- the collaborators rendered inside the dialog -----------------------
RemoveAt(s, i) == SubSeq(s, 1, i - 1) \o SubSeq(s, i + 1, Len(s))

\* AddSegmentDialog: the user adds a segment to the display
AddSegment ==
    /\ open
    /\ \E seg \in Segments :
          /\ InBounds(Append(display.segments, seg))
          /\ display' = [display EXCEPT !.segments = Append(@, seg)]
    /\ Idle
    /\ UNCHANGED <<open, notified>>

\* Segment row: the user deletes a segment of the display
DeleteSegment ==
    /\ open
    /\ \E i \in 1..Len(display.segments) :
          display' = [display EXCEPT !.segments = RemoveAt(@, i)]
    /\ Idle
    /\ UNCHANGED <<open, notified>>

Init ==
    /\ open = FALSE
    /\ display \in [id : DisplayIds, segments : SegmentSeqs]
    /\ output = [n \in {} |-> <<>>]
    /\ overlap = FALSE
    /\ dispatched = <<>>
    /\ saved = FALSE
    /\ notified = FALSE

Next ==
    \/ handleClickOpen
    \/ handleClose
    \/ handleSave
    \/ AddSegment
    \/ DeleteSegment

Spec == Init /\ [][Next]_vars

\* ---- vocabulary of the properties ---------------------------------------
segs == display.segments

Notification == [type |-> "showdynSnackbar", payload |-> [message |-> Message]]

IsUpdate(a) == a.type = "updateDisplayConfig"

IsNotification(a) == a.type = "showdynSnackbar"

Accepted == saved /\ \E k \in 1..Len(dispatched) : IsUpdate(dispatched[k])

Rejected == saved /\ \E k \in 1..Len(dispatched) : IsNotification(dispatched[k])

\* two positions i < j of s with the same name and end(i) >= start(j)
PairOverlap(s) ==
    \E i, j \in 1..Len(s) : i < j /\ s[i][1] = s[j][1] /\ s[i][3] >= s[j][2]

\* the segments of s named n, in the order of s
Sub(s, n) == SelectSeq(s, LAMBDA x : x[1] = n)

WellFormed(x) == x[2] <= x[3]

\* closed intervals [start, end] of x and y have a common point
Intersect(x, y) == x[2] <= y[3] /\ y[2] <= x[3]

\* ---- C1 -----------------------------------------------------------------
\* C1: after every save attempt, overlap is TRUE exactly when two positions
\* i < j of the segment sequence carry the same name and end(i) >= start(j);
\* nothing else (the later end, the earlier start, the flag) enters.
C1_OverlapIffOrderedPair == saved => (overlap = PairOverlap(segs))

\* a save flagged because of a non-adjacent same-name pair in a 3-sequence
C1_Witness ==
    /\ saved /\ overlap /\ Len(segs) = 3
    /\ segs[1][1] = segs[3][1] /\ segs[2][1] # segs[1][1]
    /\ segs[1][3] >= segs[3][2]

\* ---- C2 -----------------------------------------------------------------
\* C2: every save attempt dispatches exactly one action: the notification with
\* the fixed message when overlap is TRUE (and no update), the update action
\* when overlap is FALSE (and no notification).
C2_ExactlyOneDispatch ==
    saved =>
        /\ Len(dispatched) = 1
        /\ overlap => dispatched[1] = Notification
        /\ ~overlap => IsUpdate(dispatched[1])

\* a rejected save right after which only the notification is in flight
C2_Witness == saved /\ overlap /\ dispatched = <<Notification>> /\ Len(segs) = 2

\* ---- C3 -----------------------------------------------------------------
\* C3: a save step never changes the display; when it is accepted, the update
\* action carries the display's id and the segment sequence exactly as it was
\* before the save (same length, order, names, starts, ends and flags).
C3_ForwardedUnchanged ==
    [][saved' =>
          /\ display' = display
          /\ ~overlap' =>
                /\ Len(dispatched') = 1
                /\ IsUpdate(dispatched'[1])
                /\ dispatched'[1].payload.id = display.id
                /\ dispatched'[1].payload.data = display.segments]_vars

\* an accepted save of two segments named b then a, one of them flagged
C3_Witness ==
    /\ Accepted /\ Len(segs) = 2
    /\ segs[1][1] = "b" /\ segs[2][1] = "a" /\ segs[1][4] /\ ~segs[2][4]
    /\ dispatched[1].payload.data = segs

\* ---- C4 -----------------------------------------------------------------
\* C4: for one name with two disjoint ranges, the later one lying entirely
\* before the earlier one, the validator reports overlap = FALSE and the save
\* is accepted.
C4_DisjointReversedAccepted ==
    (/\ saved /\ Len(segs) = 2
     /\ segs[1][1] = segs[2][1]
     /\ WellFormed(segs[1]) /\ WellFormed(segs[2])
     /\ segs[2][3] < segs[1][2])
    => (~overlap /\ Accepted)

\* ---- C5 -----------------------------------------------------------------
\* C5: boundary equality counts as overlap: whenever an earlier segment's end
\* equals the start of a later segment of the same name, the save reports
\* overlap = TRUE and is rejected.
C5_BoundaryEqualityRejected ==
    (/\ saved
     /\ \E i, j \in 1..Len(segs) :
           i < j /\ segs[i][1] = segs[j][1] /\ segs[i][3] = segs[j][2])
    => (overlap /\ Rejected /\ ~Accepted)

\* (0,0) then (0,1) of one name: the only tripping comparison is an equality
C5_Witness ==
    /\ saved /\ overlap /\ Len(segs) = 2
    /\ segs[1][1] = segs[2][1]
    /\ segs[1][2] < segs[1][3] \/ segs[2][2] < segs[2][3]
    /\ segs[1][3] = segs[2][2]

\* ---- C6 -----------------------------------------------------------------
\* C6: when no two segments share a name (the empty sequence included), the
\* save reports overlap = FALSE whatever the starts, ends and flags are, and
\* the sequence is forwarded unchanged in the update action.
C6_DistinctNamesAccepted ==
    (/\ saved
     /\ \A i, j \in 1..Len(segs) : i # j => segs[i][1] # segs[j][1])
    => /\ ~overlap
       /\ dispatched = <<[type |-> "updateDisplayConfig",
                          payload |-> [id |-> display.id, data |-> segs]]>>

\* two names, the first range reaching past the start of the second, a flag set
C6_Witness ==
    /\ saved /\ ~overlap /\ Len(segs) = 2
    /\ segs[1][1] # segs[2][1]
    /\ segs[1][3] >= segs[2][2]
    /\ segs[1][2] > segs[1][3]
    /\ segs[2][4]

\* ---- C7 -----------------------------------------------------------------
\* C7: grouping does not cross-contaminate: the result of a save is the
\* disjunction of the results of validating each name's sub-sequence alone,
\* and removing a segment of a name whose own group does not trip never
\* changes the result.
C7_NoCrossContamination ==
    saved =>
        /\ overlap = (\E n \in Names : validate(Sub(segs, n)).overlap)
        /\ \A i \in 1..Len(segs) :
              ~validate(Sub(segs, segs[i][1])).overlap
                 => validate(RemoveAt(segs, i)).overlap = overlap

\* accepted although a segment of the other name sits between two segments of
\* one name and its end reaches the start of the one after it
C7_Witness ==
    /\ saved /\ ~overlap /\ Len(segs) = 3
    /\ segs[1][1] = segs[3][1] /\ segs[2][1] # segs[1][1]
    /\ segs[2][3] >= segs[3][2]
    /\ segs[1][3] >= segs[2][2]

\* ---- C8 -----------------------------------------------------------------
\* C8: the outcome of a save depends only on the segment sequence at that
\* moment: the grouping map is rebuilt from empty (it holds exactly the
\* current segments of each name), a save repeated on an unchanged sequence
\* gives the same outcome, and after earlier rejections a sequence without a
\* tripping pair is accepted.
C8_OutcomeDependsOnlyOnSequence ==
    [][saved' =>
          /\ \A n \in Names :
                IF Sub(display.segments, n) = <<>>
                THEN n \notin DOMAIN output'
                ELSE /\ n \in DOMAIN output'
                     /\ Len(output'[n]) = Len(Sub(display.segments, n))
          /\ saved => (overlap' = overlap /\ dispatched' = dispatched)
          /\ (notified /\ ~PairOverlap(display.segments))
                => (Len(dispatched') = 1 /\ IsUpdate(dispatched'[1]))]_vars

\* a save accepted after an earlier save was rejected
C8_Witness == notified /\ Accepted /\ Len(segs) >= 2

\* ---- C9 -----------------------------------------------------------------
\* C9: whenever the update action is dispatched, every name group is strictly
\* increasing in sequence order (end(i) < start(j) for i < j of one name), so
\* no two well-formed same-name ranges that intersect are ever forwarded.
C9_AcceptedGroupsIncrease ==
    Accepted =>
        \A i, j \in 1..Len(segs) :
            (i < j /\ segs[i][1] = segs[j][1]) =>
                /\ segs[i][3] < segs[j][2]
                /\ (WellFormed(segs[i]) /\ WellFormed(segs[j]))
                      => ~Intersect(segs[i], segs[j])

\* an accepted save with three well-formed ranges, two of them of one name
C9_Witness ==
    /\ Accepted /\ Len(segs) = 3
    /\ \A k \in 1..3 : WellFormed(segs[k])
    /\ \E i, j \in 1..3 : i < j /\ segs[i][1] = segs[j][1]

\* ---- C10 ----------------------------------------------------------------
\* C10: open starts FALSE; it changes only through handleClickOpen (to TRUE)
\* and handleClose (to FALSE); a save, accepted or rejected, leaves it
\* unchanged, so the dialog is still open after any save.
C10_OpenOnlyByOpenAndClose ==
    /\ open = FALSE
    /\ [][/\ open' # open =>
                \/ (handleClickOpen /\ open' = TRUE)
                \/ (handleClose /\ open' = FALSE)
          /\ saved' => (open' = open /\ open' = TRUE)]_vars

\* the dialog is open right after an accepted save
C10_Witness == saved /\ ~overlap /\ open /\ Len(segs) = 1

====
